---- MODULE Spec2Model ----
(***************************************************************************)
(* Model of jsonpickle/handlers.py: the handler Registry, and the flatten  *)
(* and restore operations of DatetimeHandler and SimpleReduceHandler.      *)
(***************************************************************************)
EXTENDS Integers, Sequences, FiniteSets, TLC

VARIABLES
    handlers,   \* Registry._handlers: the dict from class to handler
    regLog,     \* history: every register(cls, handler) call so far, in order
    got,        \* the last Registry.get call: its argument, result and table before
    flat,       \* the flatten call whose document is at hand: inputs, container, outcome
    rest        \* the last restore call of a handler: document and outcome

vars == <<handlers, regLog, got, flat, rest>>

----------------------------------------------------------------------------
(* Bounds *)

MaxRegs == 2        \* register calls made after the module's own registrations
MaxPayloadLen == 2  \* bytes of a temporal payload (besides the recorded T0)
MaxArgs == 2        \* arguments of a reduce decomposition
MaxRest == 2        \* arguments after the payload of a temporal decomposition

----------------------------------------------------------------------------
(* Registry *)

None == "None"

HandlerClasses == {"DatetimeHandler", "SimpleReduceHandler", "BaseHandler"}

\* the classes the module registers, and a user class with a subclass
Types == {"datetime.datetime", "datetime.date", "datetime.time",
          "time.struct_time", "datetime.timedelta", "collections.OrderedDict",
          "Base", "Sub"}

\* the direct base class of a class (datetime.datetime derives from datetime.date)
BaseOf(cls) ==
    CASE cls = "datetime.datetime" -> "datetime.date"
      [] cls = "Sub" -> "Base"
      [] OTHER -> "object"

\* the register calls the module makes while it is loaded, in order
DefaultRegistrations ==
    << <<"datetime.datetime", "DatetimeHandler">>,
       <<"datetime.date", "DatetimeHandler">>,
       <<"datetime.time", "DatetimeHandler">>,
       <<"time.struct_time", "SimpleReduceHandler">>,
       <<"datetime.timedelta", "SimpleReduceHandler">>,
       <<"collections.OrderedDict", "SimpleReduceHandler">> >>

\* a mutant of RegistryRegister: the first binding of a class is kept
RegistryRegister_keepFirst(table, cls, handler) ==
    IF cls \in DOMAIN table THEN table ELSE (cls :> handler) @@ table

\* self._handlers[cls] = handler
RegistryRegister(table, cls, handler) == (cls :> handler) @@ table

\* a mutant of RegistryGet: a miss falls back to the handler of the base class
RegistryGet_viaBase(table, cls) ==
    IF cls \in DOMAIN table THEN table[cls]
    ELSE IF BaseOf(cls) \in DOMAIN table THEN table[BaseOf(cls)]
    ELSE None

\* self._handlers.get(cls)
RegistryGet(table, cls) == IF cls \in DOMAIN table THEN table[cls] ELSE None

RECURSIVE LoadModule(_, _)
\* the table after the first n registrations of the module
LoadModule(table, n) ==
    IF n = 0 THEN table
    ELSE RegistryRegister(LoadModule(table, n - 1),
                          DefaultRegistrations[n][1], DefaultRegistrations[n][2])

NoGet == [cls |-> None, result |-> None, before |-> <<>>, done |-> FALSE]

register(cls, handler) ==
    /\ Len(regLog) < Len(DefaultRegistrations) + MaxRegs
    /\ handlers' = RegistryRegister(handlers, cls, handler)
    /\ regLog' = Append(regLog, <<cls, handler>>)
    /\ got' = NoGet
    /\ UNCHANGED <<flat, rest>>

get(cls) ==
    /\ got' = [cls |-> cls, result |-> RegistryGet(handlers, cls),
               before |-> handlers, done |-> TRUE]
    /\ UNCHANGED <<handlers, regLog, flat, rest>>

Register == \E cls \in Types, handler \in HandlerClasses : register(cls, handler)

Get == \E cls \in Types : get(cls)

----------------------------------------------------------------------------
(* base64, as the standard library computes it (binascii.b2a_base64 and    *)
(* binascii.a2b_base64 behind base64.b64encode and base64.b64decode).      *)
(* A byte is an integer of 0..255; text is a sequence of characters.       *)

Alphabet ==
    << "A","B","C","D","E","F","G","H","I","J","K","L","M","N","O","P",
       "Q","R","S","T","U","V","W","X","Y","Z","a","b","c","d","e","f",
       "g","h","i","j","k","l","m","n","o","p","q","r","s","t","u","v",
       "w","x","y","z","0","1","2","3","4","5","6","7","8","9","+","/" >>

Pad == "="

AlphabetChars == {Alphabet[i] : i \in 1..64}

\* table_a2b_base64: the six bits a character of the alphabet stands for
Sextet(c) == (CHOOSE i \in 1..64 : Alphabet[i] = c) - 1

RECURSIVE b2a_unshifted(_, _, _, _)
\* a mutant of b2a_base64: the last, partial group is not shifted into place
b2a_unshifted(bin, leftchar, leftbits, out) ==
    IF leftbits >= 6
    THEN b2a_unshifted(bin, leftchar % (2 ^ (leftbits - 6)), leftbits - 6,
                    Append(out, Alphabet[((leftchar \div (2 ^ (leftbits - 6))) % 64) + 1]))
    ELSE IF bin # <<>>
    THEN b2a_unshifted(Tail(bin), leftchar * 256 + Head(bin), leftbits + 8, out)
    ELSE IF leftbits = 2
    THEN out \o <<Alphabet[(leftchar % 4) + 1], Pad, Pad>>
    ELSE IF leftbits = 4
    THEN out \o <<Alphabet[(leftchar % 16) + 1], Pad>>
    ELSE out

RECURSIVE b2a_base64(_, _, _, _)
\* the encoder loop: shift each byte in, emit six bits while there are six,
\* then pad the last group
b2a_base64(bin, leftchar, leftbits, out) ==
    IF leftbits >= 6
    THEN b2a_base64(bin, leftchar % (2 ^ (leftbits - 6)), leftbits - 6,
                    Append(out, Alphabet[((leftchar \div (2 ^ (leftbits - 6))) % 64) + 1]))
    ELSE IF bin # <<>>
    THEN b2a_base64(Tail(bin), leftchar * 256 + Head(bin), leftbits + 8, out)
    ELSE IF leftbits = 2
    THEN out \o <<Alphabet[((leftchar % 4) * 16) + 1], Pad, Pad>>
    ELSE IF leftbits = 4
    THEN out \o <<Alphabet[((leftchar % 16) * 4) + 1], Pad>>
    ELSE out

\* base64.b64encode(s)
b64encode(s) == b2a_base64(s, 0, 0, <<>>)

RECURSIVE binascii_find_valid(_, _)
\* the (num+1)th character of s that the decoding table knows, or "" if none
binascii_find_valid(s, num) ==
    IF s = <<>> THEN ""
    ELSE IF Head(s) \in AlphabetChars \cup {Pad}
         THEN IF num = 0 THEN Head(s) ELSE binascii_find_valid(Tail(s), num - 1)
         ELSE binascii_find_valid(Tail(s), num)

RECURSIVE a2b_padSkipped(_, _, _, _, _)
\* a mutant of a2b_base64: a pad character never ends the input
a2b_padSkipped(ascii, quad_pos, leftchar, leftbits, out) ==
    IF ascii = <<>>
    THEN [ok |-> leftbits = 0, bin |-> out]
    ELSE IF Head(ascii) \notin AlphabetChars
    THEN a2b_padSkipped(Tail(ascii), quad_pos, leftchar, leftbits, out)
    ELSE LET lc == leftchar * 64 + Sextet(Head(ascii))
             lb == leftbits + 6
         IN  IF lb >= 8
             THEN a2b_padSkipped(Tail(ascii), (quad_pos + 1) % 4,
                                 lc % (2 ^ (lb - 8)), lb - 8,
                                 Append(out, (lc \div (2 ^ (lb - 8))) % 256))
             ELSE a2b_padSkipped(Tail(ascii), (quad_pos + 1) % 4, lc, lb, out)

RECURSIVE a2b_base64(_, _, _, _, _)
\* the decoder loop: characters outside the alphabet are skipped, a pad
\* character ends the input once the group holds at least two characters,
\* and bits left over at the end are the "Incorrect padding" error
a2b_base64(ascii, quad_pos, leftchar, leftbits, out) ==
    IF ascii = <<>>
    THEN [ok |-> leftbits = 0, bin |-> out]
    ELSE IF Head(ascii) = Pad
    THEN IF \/ quad_pos < 2
            \/ quad_pos = 2 /\ binascii_find_valid(ascii, 1) # Pad
         THEN a2b_base64(Tail(ascii), quad_pos, leftchar, leftbits, out)
         ELSE [ok |-> TRUE, bin |-> out]
    ELSE IF Head(ascii) \notin AlphabetChars
    THEN a2b_base64(Tail(ascii), quad_pos, leftchar, leftbits, out)
    ELSE LET lc == leftchar * 64 + Sextet(Head(ascii))
             lb == leftbits + 6
         IN  IF lb >= 8
             THEN a2b_base64(Tail(ascii), (quad_pos + 1) % 4,
                             lc % (2 ^ (lb - 8)), lb - 8,
                             Append(out, (lc \div (2 ^ (lb - 8))) % 256))
             ELSE a2b_base64(Tail(ascii), (quad_pos + 1) % 4, lc, lb, out)

\* base64.b64decode(s): ok is FALSE when the decoder raises
b64decode(s) == a2b_base64(s, 0, 0, 0, <<>>)

----------------------------------------------------------------------------
(* Values, the Context, and the calls a handler makes *)

ReduceKey == "__reduce__"

EmptyDict == [k \in {} |-> None]

NoState == <<>>

\* what follows the payload in the decomposition of a temporal value
TzInfos == {"UTC", "EST"}

TemporalClasses == {"datetime.datetime", "datetime.date", "datetime.time"}

\* the classes bound to SimpleReduceHandler, and a user class bound to it
ReduceClasses == {"time.struct_time", "datetime.timedelta",
                  "collections.OrderedDict", "Base"}

\* the classes whose instances can carry state of their own besides the
\* arguments of their factory
StatefulClasses == {"collections.OrderedDict", "Base"}

SeqsUpTo(S, n) == UNION {[1..k -> S] : k \in 0..n}

\* payload of the recorded instant 2023-01-01 00:00:00
T0Payload == <<7, 231, 0, 1, 1, 0, 0, 0, 0>>

\* a null byte and a byte outside ASCII
ByteSample == {0, 255}

Payloads == SeqsUpTo(ByteSample, MaxPayloadLen) \cup {T0Payload}

\* a value is the class it is built by, the arguments of that class, and the
\* state it carries besides
ReduceValues ==
    {v \in [cls : ReduceClasses, args : SeqsUpTo({0, 1}, MaxArgs),
            state : {NoState, <<1>>}] :
        v.state # NoState => v.cls \in StatefulClasses}

\* a date is its payload alone; a time or a datetime can carry more after it
TemporalValues ==
    {v \in {[cls |-> c, args |-> <<p>> \o r, state |-> NoState] :
                c \in TemporalClasses, p \in Payloads,
                r \in SeqsUpTo(TzInfos, MaxRest)} :
        v.cls = "datetime.date" => Len(v.args) = 1}

\* obj.__reduce__(): (factory, args), and the state as a third item if any
reduce(obj) ==
    IF obj.state = NoState THEN <<obj.cls, obj.args>>
    ELSE <<obj.cls, obj.args, obj.state>>

\* unicode(obj)
unicode(obj) == <<"unicode", obj.cls, obj.args>>

\* factory(*args) and cls.__new__(cls, *params): the value built
Construct(factory, args) == [cls |-> factory, args |-> args, state |-> NoState]

\* pickler.flatten(value, reset=False) of the enclosing session
CtxFlatten(value) == [py |-> value]

\* unpickler.restore(encoded, reset=False) of the enclosing session
CtxRestore(encoded) == encoded.py

Call(fn, arg, reset) == [fn |-> fn, arg |-> arg, reset |-> reset]

Returned(kind, val) == [kind |-> kind, val |-> val]

Raised(exc) == [kind |-> "raise", val |-> exc]

Outcome(ret, data, calls) == [ret |-> ret, data |-> data, calls |-> calls]

----------------------------------------------------------------------------
(* DatetimeHandler *)

\* the nested calls of a handler, one flatten or restore call per item
NestedCalls(fn, items) == [i \in 1..Len(items) |-> Call(fn, items[i], FALSE)]

\* a mutant of DatetimeHandler_flatten: the unpicklable flag is not read
DatetimeHandler_flatten_alwaysFull(obj, data, unpicklable) ==
    LET red == reduce(obj)
        cls == red[1]
        args == red[2]
        marker == <<CtxFlatten(cls),
                    <<b64encode(args[1])>> \o
                        [i \in 1..(Len(args) - 1) |-> CtxFlatten(args[i + 1])]>>
    IN  Outcome(Returned("data", None), (ReduceKey :> marker) @@ data,
                <<Call("__reduce__", obj, FALSE)>>
                    \o NestedCalls("flatten", Tail(args))
                    \o <<Call("flatten", cls, FALSE)>>)

\* DatetimeHandler.flatten(obj, data) under a Context with the given flag
DatetimeHandler_flatten(obj, data, unpicklable) ==
    IF ~unpicklable
    THEN Outcome(Returned("str", unicode(obj)), data, <<>>)
    ELSE LET red == reduce(obj)
             reduced == <<Call("__reduce__", obj, FALSE)>>
         IN  IF Len(red) # 2
             THEN Outcome(Raised("ValueError"), data, reduced)
             ELSE LET cls == red[1]
                      args == red[2]
                  IN  IF Len(args) = 0
                      THEN Outcome(Raised("IndexError"), data, reduced)
                      ELSE LET marker ==
                                   <<CtxFlatten(cls),
                                     <<b64encode(args[1])>> \o
                                         [i \in 1..(Len(args) - 1) |->
                                             CtxFlatten(args[i + 1])]>>
                           IN  Outcome(Returned("data", None),
                                       (ReduceKey :> marker) @@ data,
                                       reduced
                                           \o NestedCalls("flatten", Tail(args))
                                           \o <<Call("flatten", cls, FALSE)>>)

\* a mutant of DatetimeHandler_restore: the arguments are restored before the
\* class, in the order flatten flattens them
DatetimeHandler_restore_argsFirst(doc) ==
    IF ReduceKey \notin DOMAIN doc
    THEN Outcome(Raised("KeyError"), doc, <<>>)
    ELSE LET m == doc[ReduceKey]
             cls == m[1]
             args == m[2]
             decoded == b64decode(args[1])
             rcls == CtxRestore(cls)
             params == <<decoded.bin>> \o
                           [i \in 1..(Len(args) - 1) |-> CtxRestore(args[i + 1])]
         IN  IF ~decoded.ok
             THEN Outcome(Raised("DecodeError"), doc, <<>>)
             ELSE Outcome(Returned("value", Construct(rcls, params)), doc,
                          NestedCalls("restore", Tail(args))
                              \o <<Call("restore", cls, FALSE)>>
                              \o <<Call("__new__", <<rcls, params>>, FALSE)>>)

\* DatetimeHandler.restore(obj) on the document doc
DatetimeHandler_restore(doc) ==
    IF ReduceKey \notin DOMAIN doc
    THEN Outcome(Raised("KeyError"), doc, <<>>)
    ELSE LET m == doc[ReduceKey]
         IN  IF Len(m) # 2
             THEN Outcome(Raised("ValueError"), doc, <<>>)
             ELSE LET cls == m[1]
                      args == m[2]
                  IN  IF Len(args) = 0
                      THEN Outcome(Raised("IndexError"), doc, <<>>)
                      ELSE LET decoded == b64decode(args[1])
                               rcls == CtxRestore(cls)
                               params ==
                                   <<decoded.bin>> \o
                                       [i \in 1..(Len(args) - 1) |->
                                           CtxRestore(args[i + 1])]
                           IN  IF ~decoded.ok
                               THEN Outcome(Raised("DecodeError"), doc, <<>>)
                               ELSE Outcome(
                                        Returned("value", Construct(rcls, params)),
                                        doc,
                                        <<Call("restore", cls, FALSE)>>
                                            \o NestedCalls("restore", Tail(args))
                                            \o <<Call("__new__", <<rcls, params>>,
                                                      FALSE)>>)

----------------------------------------------------------------------------
(* SimpleReduceHandler *)

\* SimpleReduceHandler.flatten(obj, data) under a Context with the given flag
SimpleReduceHandler_flatten(obj, data, unpicklable) ==
    IF ~unpicklable
    THEN Outcome(Returned("str", unicode(obj)), data, <<>>)
    ELSE LET red == reduce(obj)
             marker == [i \in 1..Len(red) |-> CtxFlatten(red[i])]
         IN  Outcome(Returned("data", None), (ReduceKey :> marker) @@ data,
                     <<Call("__reduce__", obj, FALSE)>>
                         \o NestedCalls("flatten", red))

\* a mutant of SimpleReduceHandler_restore: a document without the marker is
\* read as one with an empty marker
SimpleReduceHandler_restore_lenient(doc) ==
    LET m == IF ReduceKey \in DOMAIN doc THEN doc[ReduceKey] ELSE <<>>
        restored == [i \in 1..Len(m) |-> CtxRestore(m[i])]
        calls == NestedCalls("restore", m)
    IN  IF Len(m) # 2
        THEN Outcome(Returned("value", None), doc, calls)
        ELSE Outcome(Returned("value", Construct(restored[1], restored[2])), doc,
                     Append(calls, Call("factory", <<restored[1], restored[2]>>,
                                        FALSE)))

\* SimpleReduceHandler.restore(obj) on the document doc
SimpleReduceHandler_restore(doc) ==
    IF ReduceKey \notin DOMAIN doc
    THEN Outcome(Raised("KeyError"), doc, <<>>)
    ELSE LET m == doc[ReduceKey]
             restored == [i \in 1..Len(m) |-> CtxRestore(m[i])]
             calls == NestedCalls("restore", m)
         IN  IF Len(m) # 2
             THEN Outcome(Raised("ValueError"), doc, calls)
             ELSE Outcome(Returned("value", Construct(restored[1], restored[2])),
                          doc,
                          Append(calls, Call("factory",
                                             <<restored[1], restored[2]>>, FALSE)))

----------------------------------------------------------------------------
(* The calls an engine makes on the handlers *)

NoFlatten == [handler |-> None, unpicklable |-> TRUE, obj |-> None,
              dataIn |-> EmptyDict, ret |-> Returned("none", None),
              data |-> EmptyDict, calls |-> <<>>]

NoRestore == [handler |-> None, src |-> "none", doc |-> EmptyDict,
              ret |-> Returned("none", None), calls |-> <<>>]

\* the output container an engine hands to flatten: empty, or already
\* holding the class tag of the value
Container(obj, tagged) == IF tagged THEN "py/object" :> obj.cls ELSE EmptyDict

\* documents that carry no reconstruction marker
UnmarkedDocs == {EmptyDict, "py/object" :> "datetime.datetime"}

\* first arguments a document can carry in place of an encoded payload:
\* well-formed text, truncated text, wrongly padded text, and text with
\* characters outside the alphabet
CraftedTexts ==
    { <<"Q", "U", "J", "D">>, <<"Q", "Q", "=", "=">>, <<"Q", "U", "I", "=">>,
      <<"Q", "U", "J">>, <<"Q", "Q">>, <<"Q">>,
      <<"Q", "Q", "=">>, <<"Q", "U", "J", "D", "=">>, <<"=", "Q", "Q", "=", "=">>,
      <<"Q", "U", "!", "J", "D">>, <<"Q", "Q", "=", "=", "*">>, <<" ", "Q">> }

CraftedTemporalDocs ==
    {ReduceKey :> <<CtxFlatten(c), <<t>> \o [i \in 1..Len(r) |-> CtxFlatten(r[i])]>> :
        c \in {"datetime.datetime"}, t \in CraftedTexts,
        r \in {<<>>, <<"UTC">>}}

\* the documents a restore of the given handler can be handed: the one its
\* flatten last produced, or one that came from elsewhere (no flatten call of
\* the handler is then at hand)
Sources(handler, crafted) ==
    {[src |-> "crafted", doc |-> d] : d \in crafted}
        \cup (IF flat.handler = handler /\ flat.ret.kind = "data"
              THEN {[src |-> "flattened", doc |-> flat.data]}
              ELSE {})

\* the record of a flatten call and of its outcome
Flattened(handler, obj, data, unpicklable, out) ==
    [handler |-> handler, unpicklable |-> unpicklable, obj |-> obj,
     dataIn |-> data, ret |-> out.ret, data |-> out.data, calls |-> out.calls]

\* the record of a restore call and of its outcome
Restored(handler, s, out) ==
    [handler |-> handler, src |-> s.src, doc |-> s.doc,
     ret |-> out.ret, calls |-> out.calls]

DatetimeFlatten ==
    /\ \E obj \in TemporalValues, unpicklable \in BOOLEAN, tagged \in BOOLEAN :
           flat' = Flattened("DatetimeHandler", obj, Container(obj, tagged),
                             unpicklable,
                             DatetimeHandler_flatten(obj, Container(obj, tagged),
                                                     unpicklable))
    /\ rest' = NoRestore
    /\ UNCHANGED <<handlers, regLog, got>>

DatetimeRestore ==
    /\ \E s \in Sources("DatetimeHandler", UnmarkedDocs \cup CraftedTemporalDocs) :
           /\ rest' = Restored("DatetimeHandler", s, DatetimeHandler_restore(s.doc))
           /\ flat' = IF s.src = "flattened" THEN flat ELSE NoFlatten
    /\ UNCHANGED <<handlers, regLog, got>>

SimpleFlatten ==
    /\ \E obj \in ReduceValues, unpicklable \in BOOLEAN, tagged \in BOOLEAN :
           flat' = Flattened("SimpleReduceHandler", obj, Container(obj, tagged),
                             unpicklable,
                             SimpleReduceHandler_flatten(obj, Container(obj, tagged),
                                                         unpicklable))
    /\ rest' = NoRestore
    /\ UNCHANGED <<handlers, regLog, got>>

SimpleRestore ==
    /\ \E s \in Sources("SimpleReduceHandler", UnmarkedDocs) :
           /\ rest' = Restored("SimpleReduceHandler", s,
                               SimpleReduceHandler_restore(s.doc))
           /\ flat' = IF s.src = "flattened" THEN flat ELSE NoFlatten
    /\ UNCHANGED <<handlers, regLog, got>>

----------------------------------------------------------------------------
(* Specifications *)

Init ==
    /\ handlers = LoadModule(EmptyDict, Len(DefaultRegistrations))
    /\ regLog = DefaultRegistrations
    /\ got = NoGet
    /\ flat = NoFlatten
    /\ rest = NoRestore

\* the handlers as an engine drives them
Next == DatetimeFlatten \/ DatetimeRestore \/ SimpleFlatten \/ SimpleRestore

Spec == Init /\ [][Next]_vars

\* the registry as a hosting application drives it
RegistryNext == Register \/ Get

RegistrySpec == Init /\ [][RegistryNext]_vars

----------------------------------------------------------------------------
(* Properties *)

\* the nested values a handler handed to the Context, in call order
NestedArgs(calls, fn) ==
    LET nested == SelectSeq(calls, LAMBDA c : c.fn = fn)
    IN  [i \in 1..Len(nested) |-> nested[i].arg]

CallsTo(calls, fn) == SelectSeq(calls, LAMBDA c : c.fn = fn)

Encoded(items) == [i \in 1..Len(items) |-> CtxFlatten(items[i])]

RoundTrip(handler) == rest.handler = handler /\ rest.src = "flattened"

\* C1: restore of what SimpleReduceHandler.flatten produced (unpicklable true)
\* returns a value equal to the one flattened, whatever the length of its
\* __reduce__ tuple; with no arguments the factory is called once, with none.
C1_RoundTrip ==
    RoundTrip("SimpleReduceHandler") =>
        /\ rest.ret.kind = "value"
        /\ rest.ret.val = flat.obj
        /\ Len(flat.obj.args) = 0 =>
              CallsTo(rest.calls, "factory")
                  = <<Call("factory", <<flat.obj.cls, <<>>>>, FALSE)>>

\* C2: DatetimeHandler.restore of what DatetimeHandler.flatten produced calls
\* cls.__new__ once, with the payload byte for byte and the arguments after it
\* in their order.
C2_PayloadFidelity ==
    RoundTrip("DatetimeHandler") =>
        CallsTo(rest.calls, "__new__")
            = <<Call("__new__", <<flat.obj.cls, flat.obj.args>>, FALSE)>>

C2_Witness ==
    /\ RoundTrip("DatetimeHandler")
    /\ flat.obj.args[1] = <<0, 255>>
    /\ Len(flat.obj.args) = 2
    /\ rest.ret.kind = "value"


\* the handler the most recent register(cls, .) call of the log passed, None
\* if the log has no call for cls
LastRegistered(log, cls) ==
    LET calls == {i \in 1..Len(log) : log[i][1] = cls}
    IN  IF calls = {} THEN None
        ELSE log[CHOOSE i \in calls : \A j \in calls : j <= i][2]

\* C3: after any sequence of register calls, get(T) is the handler of the
\* most recent register(T, .) call, for every type T; the table binds exactly
\* the types registered, one handler each.
C3_LastWriteWins ==
    /\ \A cls \in Types : RegistryGet(handlers, cls) = LastRegistered(regLog, cls)
    /\ DOMAIN handlers = {regLog[i][1] : i \in 1..Len(regLog)}
    /\ got.done => got.result = LastRegistered(regLog, got.cls)

C3_Witness ==
    /\ got.done
    /\ got.cls = "datetime.date"
    /\ got.result = "BaseHandler"
    /\ \E i, j \in 1..Len(regLog) :
           /\ i < j
           /\ regLog[i] = <<"datetime.date", "DatetimeHandler">>
           /\ regLog[j] = <<"datetime.date", "BaseHandler">>

Registered(cls) == \E i \in 1..Len(regLog) : regLog[i][1] = cls

\* C4: get(S) returns a handler only if register(S, .) was called for exactly
\* S, whatever is bound to the base classes of S; for a type with no binding
\* get returns None and leaves the table as it was.
C4_ExactType ==
    got.done =>
        /\ got.result # None => Registered(got.cls)
        /\ ~Registered(got.cls) => got.result = None
        /\ handlers = got.before

C4_Witness ==
    /\ got.done
    /\ got.cls = "Sub"
    /\ Registered("Base")
    /\ ~Registered("Sub")
    /\ got.result = None

\* C5: with the unpicklable flag false, flatten of both handlers returns the
\* string conversion of the value, leaves the container as it was (no marker,
\* no other key), and calls neither __reduce__ nor the Context.
C5_LossyMode ==
    (flat.handler # None /\ ~flat.unpicklable) =>
        /\ flat.ret = Returned("str", unicode(flat.obj))
        /\ flat.data = flat.dataIn
        /\ ReduceKey \notin DOMAIN flat.data
        /\ flat.calls = <<>>

C5_Witness ==
    /\ flat.handler = "DatetimeHandler"
    /\ ~flat.unpicklable
    /\ flat.ret.kind = "str"
    /\ DOMAIN flat.dataIn = {"py/object"}

\* C6: with the unpicklable flag true, flatten of both handlers returns the
\* container it was given, and the value under the marker is a sequence of
\* exactly two items, for every decomposition __reduce__ returns.
C6_MarkerShape ==
    (flat.handler # None /\ flat.unpicklable) =>
        /\ flat.ret.kind = "data"
        /\ ReduceKey \in DOMAIN flat.data
        /\ Len(flat.data[ReduceKey]) = 2


\* the byte at position i of bin, zero past its end
ByteAt(bin, i) == IF i <= Len(bin) THEN bin[i] ELSE 0

\* the six bits of the character at position i of text, zero for padding
BitsAt(text, i) == IF text[i] = Pad THEN 0 ELSE Sextet(text[i])

\* text is the standard base64 encoding of bin: four characters for every
\* three bytes, carrying the same 24 bits; a last group short of one or two
\* bytes ends in as many pad characters, and no character is a pad otherwise
IsBase64Of(text, bin) ==
    LET groups == (Len(bin) + 2) \div 3
        pads == (3 - (Len(bin) % 3)) % 3
    IN  /\ Len(text) = 4 * groups
        /\ \A i \in 1..Len(text) :
               IF i > Len(text) - pads THEN text[i] = Pad
               ELSE text[i] \in AlphabetChars
        /\ \A g \in 0..(groups - 1) :
               ByteAt(bin, 3 * g + 1) * 65536 + ByteAt(bin, 3 * g + 2) * 256
                       + ByteAt(bin, 3 * g + 3)
                   = BitsAt(text, 4 * g + 1) * 262144 + BitsAt(text, 4 * g + 2) * 4096
                       + BitsAt(text, 4 * g + 3) * 64 + BitsAt(text, 4 * g + 4)

T0Base64 == <<"B", "+", "c", "A", "A", "Q", "E", "A", "A", "A", "A", "A">>

\* C7: with the unpicklable flag true, DatetimeHandler.flatten stores under
\* the marker the pair of the flattened class and the list of the base64 text
\* of the payload followed by the flattened later arguments, in their order;
\* the payload of T0 is stored as the text B+cAAQEAAAAA.
C7_WireFormat ==
    (flat.handler = "DatetimeHandler" /\ flat.unpicklable) =>
        /\ flat.ret.kind = "data"
        /\ LET marker == flat.data[ReduceKey]
               args == flat.obj.args
           IN  /\ Len(marker) = 2
               /\ marker[1] = CtxFlatten(flat.obj.cls)
               /\ Len(marker[2]) = Len(args)
               /\ IsBase64Of(marker[2][1], args[1])
               /\ args[1] = T0Payload => marker[2][1] = T0Base64
               /\ \A i \in 2..Len(args) : marker[2][i] = CtxFlatten(args[i])

C7_Witness ==
    /\ flat.handler = "DatetimeHandler"
    /\ flat.unpicklable
    /\ flat.obj.args = <<T0Payload, "UTC">>
    /\ flat.ret.kind = "data"
    /\ flat.data[ReduceKey][2] = <<T0Base64, CtxFlatten("UTC")>>

\* C8: restore of both handlers on a document without the marker ends in an
\* error, having made no call to the Context, to a factory or to __new__.
C8_MissingMarker ==
    (rest.handler # None /\ ReduceKey \notin DOMAIN rest.doc) =>
        /\ rest.ret.kind = "raise"
        /\ rest.calls = <<>>

C8_Witness ==
    /\ rest.handler = "SimpleReduceHandler"
    /\ DOMAIN rest.doc = {"py/object"}
    /\ rest.ret = Raised("KeyError")

\* text is well-formed base64: whole groups of four characters of the
\* alphabet, the last group ending in at most two pad characters
WellFormedBase64(text) ==
    /\ Len(text) % 4 = 0
    /\ \A i \in 1..Len(text) :
           \/ text[i] \in AlphabetChars
           \/ /\ text[i] = Pad
              /\ i > Len(text) - 2
              /\ \A j \in i..Len(text) : text[j] = Pad

\* C9: DatetimeHandler.restore of a document whose first marker argument is
\* not well-formed base64 text ends in an error and constructs no value.
C9_MalformedPayload ==
    (/\ rest.handler = "DatetimeHandler"
     /\ ReduceKey \in DOMAIN rest.doc
     /\ ~WellFormedBase64(rest.doc[ReduceKey][2][1])) =>
        /\ rest.ret.kind = "raise"
        /\ CallsTo(rest.calls, "__new__") = <<>>

\* the nested calls of a handler all pass reset=False
NoReset(calls) == \A i \in 1..Len(calls) : calls[i].reset = FALSE

\* the factory and the arguments flatten hands on, factory first
FactoryFirst(obj, handler) ==
    IF handler = "DatetimeHandler" THEN <<obj.cls>> \o Tail(obj.args)
    ELSE reduce(obj)

\* the order in which the handler's flatten hands them to the Context
FlattenOrder(obj, handler) ==
    IF handler = "DatetimeHandler" THEN Tail(obj.args) \o <<obj.cls>>
    ELSE reduce(obj)

\* C10 as stated: flatten hands the factory first and then the arguments in
\* decomposition order, restore hands the encoded values in that same order,
\* and every nested call passes reset=False.
C10_SameOrder ==
    /\ (flat.handler # None /\ flat.ret.kind = "data") =>
           /\ NestedArgs(flat.calls, "flatten") = FactoryFirst(flat.obj, flat.handler)
           /\ NoReset(flat.calls)
    /\ (rest.handler # None /\ rest.src = "flattened") =>
           /\ NestedArgs(rest.calls, "restore")
                  = Encoded(FactoryFirst(flat.obj, flat.handler))
           /\ NoReset(rest.calls)

\* C10 amended: restore of both handlers hands the encoded factory first and
\* then the encoded arguments in decomposition order; SimpleReduceHandler's
\* flatten hands the values in that same order, DatetimeHandler's flatten hands
\* the arguments after the payload first and the factory last; every nested
\* call passes reset=False.
C10_NestedOrder ==
    /\ (flat.handler # None /\ flat.ret.kind = "data") =>
           /\ NestedArgs(flat.calls, "flatten") = FlattenOrder(flat.obj, flat.handler)
           /\ NoReset(flat.calls)
    /\ (rest.handler # None /\ rest.src = "flattened") =>
           /\ NestedArgs(rest.calls, "restore")
                  = Encoded(FactoryFirst(flat.obj, flat.handler))
           /\ NoReset(rest.calls)

C10_Witness ==
    /\ RoundTrip("DatetimeHandler")
    /\ Len(flat.obj.args) = 2
    /\ NestedArgs(flat.calls, "flatten") = <<"UTC", "datetime.time">>
    /\ NestedArgs(rest.calls, "restore")
           = <<CtxFlatten("datetime.time"), CtxFlatten("UTC")>>

====
